---- MODULE Spec2Model ----
(***************************************************************************)
(* MySQL Explorer gateway (server.py): the application lifespan that owns  *)
(* the aiomysql connection pool, the four schema resources, and the two    *)
(* tools query_data and table_statistics.                                  *)
(*                                                                         *)
(* Text is a sequence of one-character strings.  An Optional value is a    *)
(* sequence of length 0 (None) or 1.                                       *)
(*                                                                         *)
(* The database and the aiomysql pool are the environment.  The pool is    *)
(* taken by its contract: acquire() hands out a connection nobody holds,   *)
(* waits while all are in use and raises once close() has been called;     *)
(* wait_closed() returns when nothing is checked out.  A statement either  *)
(* raises or answers.  A handler's statements, the exit of its "async      *)
(* with" blocks and its return are one step: handlers share no state but   *)
(* the pool.                                                               *)
(***************************************************************************)
EXTENDS Integers, Sequences, FiniteSets, TLC

\* ------------------------------------------------------------------ bounds
NumOps == 2          \* concurrent callers of the gateway
MaxSize == 1         \* maximum size of the pool

\* ------------------------------------------------------------ text helpers
None == << >>
Some(x) == << x >>

UpperChars == << "A","B","C","D","E","F","G","H","I","J","K","L","M",
                 "N","O","P","Q","R","S","T","U","V","W","X","Y","Z" >>
LowerChars == << "a","b","c","d","e","f","g","h","i","j","k","l","m",
                 "n","o","p","q","r","s","t","u","v","w","x","y","z" >>
DigitChars == << "0","1","2","3","4","5","6","7","8","9" >>
Whitespace == { " ", "\t", "\n" }

LowerChar(c) ==
    IF \E i \in 1..26 : UpperChars[i] = c
    THEN LowerChars[CHOOSE i \in 1..26 : UpperChars[i] = c]
    ELSE c

\* str.lower()
Lower(s) == [i \in 1..Len(s) |-> LowerChar(s[i])]

RECURSIVE LStrip(_)
LStrip(s) == IF s # << >> /\ Head(s) \in Whitespace THEN LStrip(Tail(s)) ELSE s

RECURSIVE RStrip(_)
RStrip(s) ==
    IF s # << >> /\ s[Len(s)] \in Whitespace
    THEN RStrip(SubSeq(s, 1, Len(s) - 1))
    ELSE s

\* str.strip()
Strip(s) == RStrip(LStrip(s))

\* str.startswith(p)
StartsWith(s, p) == Len(s) >= Len(p) /\ SubSeq(s, 1, Len(p)) = p

\* "p in s"
Contains(s, p) ==
    \E i \in 0..(Len(s) - Len(p)) : SubSeq(s, i + 1, i + Len(p)) = p

RECURSIVE NatToStr(_)
NatToStr(n) ==
    IF n < 10 THEN << DigitChars[n + 1] >>
    ELSE NatToStr(n \div 10) \o << DigitChars[(n % 10) + 1] >>

\* str(n) of an int
IntToStr(n) == IF n < 0 THEN << "-" >> \o NatToStr(-n) ELSE NatToStr(n)

RECURSIVE Join(_, _)
\* sep.join(parts)
Join(sep, parts) ==
    IF parts = << >> THEN << >>
    ELSE IF Len(parts) = 1 THEN parts[1]
    ELSE parts[1] \o sep \o Join(sep, Tail(parts))

RECURSIVE ReplacePipe(_)
\* s.replace("|", "\\|")
ReplacePipe(s) ==
    IF s = << >> THEN << >>
    ELSE (IF Head(s) = "|" THEN << "\\", "|" >> ELSE << Head(s) >>)
         \o ReplacePipe(Tail(s))

kwSelect == << "s","e","l","e","c","t" >>
kwLimit == << "l","i","m","i","t" >>
LimitSuffix == << " ","L","I","M","I","T"," " >>

\* ------------------------------------------------------------------ state
VARIABLES
    lifespan,    \* where app_lifespan is: start, serving, closing, exited, failed
    exitCause,   \* why the lifespan body ended: none, normal, exception
    poolState,   \* uninitialized, ready, draining, closed
    closeCalls,  \* number of pool.close() calls made
    used,        \* connections checked out of the pool
    catalog,     \* tables of the database: sequence of [name, columns]
    pc,          \* per caller: idle, acquire, run, done
    request,     \* per caller: the operation invoked and its arguments
    conn,        \* per caller: the connection it holds, or NoConn
    log,         \* per caller: statements it sent to the database, with replies
    response,    \* per caller: the text returned
    escaped      \* per caller: the exception that left the handler, or None

vars == << lifespan, exitCause, poolState, closeCalls, used, catalog,
           pc, request, conn, log, response, escaped >>

lifeVars == << lifespan, exitCause, poolState, closeCalls >>
opVars == << pc, request, conn, log, response, escaped >>

Ops == 1..NumOps
Conns == 1..MaxSize
NoConn == 0

NoRequest == [kind |-> "none", sql |-> << >>, limit |-> None, table |-> << >>]
NoResponse == [kind |-> "none"]

\* The operations that wrap their body in try/except Exception.
Catching == { "query_data", "table_statistics" }

\* ------------------------------------------------------------ query guard
\* The guard as it would be with a substring test in place of startswith.
GuardAcceptsAnywhere(sql) == Contains(Lower(Strip(sql)), kwSelect)

\* query_data, lines 178-180: the read-only check on the stripped text.
GuardAccepts(sql) == StartsWith(Lower(Strip(sql)), kwSelect)

\* query_data, lines 178-184: the statement handed to cursor.execute.
NormalizeSql(sql, limit) ==
    LET s == Strip(sql) IN
    IF ~Contains(Lower(s), kwLimit) /\ limit # None
    THEN s \o LimitSuffix \o IntToStr(limit[1])
    ELSE s

\* True when NormalizeSql appended its own LIMIT.
LimitAppended(sql, limit) == ~Contains(Lower(Strip(sql)), kwLimit) /\ limit # None

RejectedResponse == [kind |-> "rejected"]
NoRowsResponse == [kind |-> "norows"]

\* -------------------------------------------------------- result renderer
cellNULL == << "N","U","L","L" >>
cellSep == << " ","|"," " >>
rowOpen == << "|"," " >>
rowClose == << " ","|" >>
dashes == << "-","-","-" >>

\* query_data, lines 211-217: one cell of a data row.
FormatCell(cell) == ReplacePipe(IF cell = None THEN cellNULL ELSE cell[1])

\* query_data, line 203.
HeaderLine(columns) == rowOpen \o Join(cellSep, columns) \o rowClose

\* query_data, line 205.
SeparatorLine(columns) ==
    rowOpen \o Join(cellSep, [i \in 1..Len(columns) |-> dashes]) \o rowClose

\* query_data, lines 208-218.
DataLine(row) ==
    rowOpen \o Join(cellSep, [i \in 1..Len(row) |-> FormatCell(row[i])]) \o rowClose

\* query_data, lines 193-220: the response for a fetched result set.
RenderResults(rs) ==
    IF rs.rows = << >> THEN NoRowsResponse
    ELSE [kind |-> "table",
          nrows |-> Len(rs.rows),
          lines |-> << HeaderLine(rs.columns), SeparatorLine(rs.columns) >>
                    \o [i \in 1..Len(rs.rows) |-> DataLine(rs.rows[i])]]

\* ------------------------------------------------------- database replies
\* One statement as the connection saw it: what was executed, with which
\* argument, whether the database accepted it, and what it answered.
Entry(stmt, arg, ok, reply) == [stmt |-> stmt, arg |-> arg, ok |-> ok, reply |-> reply]

\* A step is a statement about to be executed with the answers the database
\* can give; it can also raise (no answers: it can only raise).
Step(stmt, arg, replies) == [stmt |-> stmt, arg |-> arg, replies |-> replies]

RECURSIVE Runs(_)
\* Every way a sequence of awaited cursor.execute calls can go: each one
\* either raises, which ends the sequence, or answers and lets the next run.
Runs(steps) ==
    IF steps = << >> THEN { [log |-> << >>, failed |-> FALSE] }
    ELSE LET st == Head(steps) IN
         { [log |-> << Entry(st.stmt, st.arg, FALSE, None) >>, failed |-> TRUE] }
         \cup
         { [log |-> << Entry(st.stmt, st.arg, TRUE, r) >> \o rest.log,
            failed |-> rest.failed] : r \in st.replies, rest \in Runs(Tail(steps)) }

TableNames(cat) == [i \in 1..Len(cat) |-> cat[i].name]
HasTable(cat, name) == \E i \in 1..Len(cat) : cat[i].name = name
TableOf(cat, name) == cat[CHOOSE i \in 1..Len(cat) : cat[i].name = name]

RECURSIVE LikeMatch(_, _)
\* The LIKE operator of the database: % matches any run of characters,
\* _ any one character, \ takes the next character literally.
LikeMatch(p, s) ==
    IF p = << >> THEN s = << >>
    ELSE IF Head(p) = "%"
         THEN LikeMatch(Tail(p), s) \/ (s # << >> /\ LikeMatch(p, Tail(s)))
    ELSE IF Head(p) = "_"
         THEN s # << >> /\ LikeMatch(Tail(p), Tail(s))
    ELSE IF Head(p) = "\\" /\ Len(p) >= 2
         THEN s # << >> /\ Head(s) = p[2] /\ LikeMatch(Tail(Tail(p)), Tail(s))
    ELSE s # << >> /\ Head(s) = Head(p) /\ LikeMatch(Tail(p), Tail(s))

\* SHOW TABLES LIKE pattern, then fetchone(): the first matching table.
ShowTablesLike(cat, pattern) ==
    LET hits == { i \in 1..Len(cat) : LikeMatch(pattern, cat[i].name) } IN
    IF hits = {} THEN None
    ELSE Some(cat[CHOOSE i \in hits : \A j \in hits : i <= j].name)

\* ------------------------------------------------------ schema resources
Failed(lg) == [log |-> lg, response |-> NoResponse, exc |-> Some("db_error")]
Returned(lg, resp) == [log |-> lg, response |-> resp, exc |-> None]

\* get_all_tables, lines 64-68.
AllTablesOutcomes(cat) ==
    { IF run.failed THEN Failed(run.log)
      ELSE Returned(run.log, [kind |-> "tables", names |-> run.log[1].reply])
      : run \in Runs(<< Step("SHOW TABLES", << >>, { TableNames(cat) }) >>) }

\* get_table_schema, lines 75-96.
TableSchemaOutcomes(cat, table) ==
    LET there == HasTable(cat, table)
        steps == << Step("DESCRIBE", table,
                         IF there THEN { TableOf(cat, table).columns } ELSE {}),
                    Step("SHOW CREATE TABLE", table,
                         IF there THEN { table } ELSE {}) >>
    IN { IF run.failed THEN Failed(run.log)
         ELSE Returned(run.log, [kind |-> "schema", table |-> table,
                                 columns |-> run.log[1].reply,
                                 create |-> run.log[2].reply])
         : run \in Runs(steps) }

\* list_schemas, lines 103-117.
ListSchemasOutcomes(cat) ==
    { IF run.failed THEN Failed(run.log)
      ELSE Returned(run.log, [kind |-> "schemas", names |-> run.log[1].reply])
      : run \in Runs(<< Step("SHOW TABLES", << >>, { TableNames(cat) }) >>) }

\* get_relationships, lines 124-165: one key-usage query per listed table;
\* a table is reported when its query returned rows.
RelationshipsOutcomes(cat) ==
    LET steps == << Step("SHOW TABLES", << >>, { TableNames(cat) }) >>
                 \o [i \in 1..Len(cat) |->
                        Step("KEY_COLUMN_USAGE", cat[i].name, { cat[i].fks })]
        groups(lg) == SelectSeq([i \in 1..Len(cat) |->
                                    [table |-> lg[i + 1].arg,
                                     relations |-> lg[i + 1].reply]],
                                LAMBDA g : g.relations # << >>)
    IN { IF run.failed THEN Failed(run.log)
         ELSE Returned(run.log, [kind |-> "relationships",
                                 groups |-> groups(run.log),
                                 has_relations |-> groups(run.log) # << >>])
         : run \in Runs(steps) }

\* ----------------------------------------------------------- query_data
\* query_data, lines 188-222, once the guard has let the text through.
QueryOutcomes(req, env) ==
    LET stmt == NormalizeSql(req.sql, req.limit)
        fits(rs) == LimitAppended(req.sql, req.limit)
                    => (req.limit[1] >= 0 /\ Len(rs.rows) <= req.limit[1])
        steps == << Step("QUERY", stmt, { rs \in env.resultSets : fits(rs) }) >>
    IN { IF run.failed THEN Failed(run.log)
         ELSE Returned(run.log, RenderResults(run.log[1].reply))
         : run \in Runs(steps) }

\* ----------------------------------------------------- table_statistics
tokInt == << "i","n","t" >>
tokDecimal == << "d","e","c","i","m","a","l" >>
tokFloat == << "f","l","o","a","t" >>
tokDouble == << "d","o","u","b","l","e" >>
tokChar == << "c","h","a","r" >>
tokText == << "t","e","x","t" >>
tokVarchar == << "v","a","r","c","h","a","r" >>

\* table_statistics, line 259.
IsNumericType(type) ==
    \E tok \in { tokInt, tokDecimal, tokFloat, tokDouble } : Contains(Lower(type), tok)

\* table_statistics, line 277.
IsTextType(type) ==
    \E tok \in { tokChar, tokText, tokVarchar } : Contains(Lower(type), tok)

\* round(float(x), 2) for an aggregate x given in eighths (every multiple of
\* 1/8 is exact as a Decimal and as a double, so Python rounds the exact
\* value, ties to even).  The result is in hundredths.
Round2(v) ==
    LET n == 25 * v IN
    IF n % 2 = 0 THEN n \div 2
    ELSE LET lo == (n - 1) \div 2 IN IF lo % 2 = 0 THEN lo ELSE lo + 1

\* table_statistics, lines 274, 275, 289: round(float(x), 2) if x else None.
RoundOrNone(x) == IF x # None /\ x[1] # 0 THEN Some(Round2(x[1])) ELSE None

\* table_statistics, lines 259-302: the statement for one column.
ColumnStep(table, col, profile) ==
    IF IsNumericType(col.type)
    THEN Step("NUMERIC_STATS", col.name, { profile.numeric })
    ELSE IF IsTextType(col.type)
    THEN Step("TEXT_STATS", col.name, { profile.text })
    ELSE Step("DISTINCT_COUNT", col.name, { profile.other })

\* table_statistics, lines 269-302: the entry appended to stats.
StatEntry(col, reply) ==
    IF IsNumericType(col.type)
    THEN [column |-> col.name, type |-> col.type,
          min |-> reply.min, max |-> reply.max,
          avg |-> RoundOrNone(reply.avg), std |-> RoundOrNone(reply.std)]
    ELSE IF IsTextType(col.type)
    THEN [column |-> col.name, type |-> col.type,
          unique_values |-> reply.unique_count,
          avg_length |-> RoundOrNone(reply.avg_length)]
    ELSE [column |-> col.name, type |-> col.type,
          unique_values |-> reply.unique_count]

\* table_statistics, lines 240-302: the statements of one call, in order.
\* The COUNT and the DESCRIBE name the table itself, so the database
\* answers them only when a table of exactly that name exists.
StatsSteps(cat, table, profile) ==
    LET lookup == ShowTablesLike(cat, table)
        there == HasTable(cat, table)
        cols == IF there THEN TableOf(cat, table).columns ELSE << >>
        first == << Step("SHOW TABLES LIKE", table, { lookup }) >>
    IN IF lookup = None THEN first
       ELSE first
            \o << Step("COUNT", table, IF there THEN { profile.count } ELSE {}),
                  Step("DESCRIBE", table, IF there THEN { cols } ELSE {}) >>
            \o [i \in 1..Len(cols) |-> ColumnStep(table, cols[i], profile)]

\* table_statistics, lines 253-337: stats and the three sections built from it.
StatsResponse(table, lg) ==
    LET columns == lg[3].reply
        stats == [i \in 1..Len(columns) |-> StatEntry(columns[i], lg[i + 3].reply)]
    IN [kind |-> "stats", table |-> table, count |-> lg[2].reply,
        num_cols |-> SelectSeq(stats, LAMBDA st : "avg" \in DOMAIN st),
        text_cols |-> SelectSeq(stats, LAMBDA st : "avg_length" \in DOMAIN st),
        other_cols |-> SelectSeq(stats, LAMBDA st : "avg" \notin DOMAIN st
                                                    /\ "avg_length" \notin DOMAIN st)]

\* A body that would skip a column whose query raised and report the rest.
StatsResultPartial(table, run) ==
    IF run.failed /\ Len(run.log) <= 3 THEN Failed(run.log)
    ELSE IF run.log[1].reply = None
    THEN Returned(run.log, [kind |-> "notfound", table |-> table])
    ELSE Returned(run.log,
                  [kind |-> "stats", table |-> table, count |-> run.log[2].reply,
                   num_cols |-> << >>, text_cols |-> << >>, other_cols |-> << >>])

\* table_statistics, lines 237-337: what the body does with one run of its
\* statements.
StatsResult(table, run) ==
    IF run.failed THEN Failed(run.log)
    ELSE IF run.log[1].reply = None
    THEN Returned(run.log, [kind |-> "notfound", table |-> table])
    ELSE Returned(run.log, StatsResponse(table, run.log))

StatsOutcomes(req, cat, env) ==
    UNION { { StatsResult(req.table, run)
              : run \in Runs(StatsSteps(cat, req.table, profile)) }
            : profile \in env.profiles }

\* ------------------------------------------------ the operation boundary
\* query_data line 224 and table_statistics line 339.
ErrorResponse(kind, exc) == [kind |-> "error", source |-> kind, detail |-> exc]

\* What reaches the caller: the two tools catch Exception and return a text
\* (lines 223-224, 338-339); the four resources have no handler.
Deliver(kind, out) ==
    IF out.exc = None THEN [response |-> out.response, escaped |-> None]
    ELSE IF kind \in Catching
    THEN [response |-> ErrorResponse(kind, out.exc[1]), escaped |-> None]
    ELSE [response |-> NoResponse, escaped |-> out.exc]

\* The body of each handler between acquiring and releasing its connection.
Outcomes(req, cat, env) ==
    CASE req.kind = "get_all_tables" -> AllTablesOutcomes(cat)
      [] req.kind = "get_table_schema" -> TableSchemaOutcomes(cat, req.table)
      [] req.kind = "list_schemas" -> ListSchemasOutcomes(cat)
      [] req.kind = "get_relationships" -> RelationshipsOutcomes(cat)
      [] req.kind = "query_data" -> QueryOutcomes(req, env)
      [] req.kind = "table_statistics" -> StatsOutcomes(req, cat, env)

\* ----------------------------------------------------------------- pool
\* A pool that would hand out a connection that is already checked out.
FreeConnsUnchecked(u) == Conns

\* pool.acquire(): the connections that can be handed out.
FreeConns(u) == Conns \ u

\* A block that would release only when it returns, not when it raises.
ReleaseOnReturnOnly(u, c, out) == IF out.exc = None THEN u \ { c } ELSE u

\* Leaving "async with pool.acquire() as conn": the connection goes back,
\* whether the block returned or raised.
ReleaseOnExit(u, c, out) == u \ { c }

\* A wait_closed() that would not wait for the checked-out connections.
DrainedAtOnce(u) == TRUE

\* pool.wait_closed(): returns once nothing is checked out.
Drained(u) == u = {}

\* app_lifespan, lines 44-48: the finally block closes the pool it created.
CloseInFinally(created) == IF created THEN 1 ELSE 0

\* -------------------------------------------------------------- lifespan
\* app_lifespan, lines 37-40: create_pool succeeded, the server is yielded to.
CreatePool ==
    /\ lifespan = "start"
    /\ lifespan' = "serving"
    /\ poolState' = "ready"
    /\ UNCHANGED << exitCause, closeCalls, used, catalog >>
    /\ UNCHANGED opVars

\* app_lifespan, lines 38, 41-46: create_pool raised; the exception is
\* re-raised and the finally block finds no pool to close.
CreatePoolFails ==
    /\ lifespan = "start"
    /\ lifespan' = "failed"
    /\ exitCause' = "exception"
    /\ closeCalls' = closeCalls + CloseInFinally(FALSE)
    /\ UNCHANGED << poolState, used, catalog >>
    /\ UNCHANGED opVars

\* app_lifespan, lines 40-47: the body under the yield ends, normally or by
\* an exception thrown in at the yield; the finally block calls pool.close().
Shutdown ==
    /\ lifespan = "serving"
    /\ \E cause \in { "normal", "exception" } : exitCause' = cause
    /\ lifespan' = "closing"
    /\ closeCalls' = closeCalls + CloseInFinally(TRUE)
    /\ poolState' = "draining"
    /\ UNCHANGED << used, catalog >>
    /\ UNCHANGED opVars

\* app_lifespan, lines 48-49: wait_closed() returns and the lifespan is left
\* (re-raising when it was left by an exception).
WaitClosed ==
    /\ lifespan = "closing"
    /\ Drained(used)
    /\ lifespan' = "exited"
    /\ poolState' = "closed"
    /\ UNCHANGED << exitCause, closeCalls, used, catalog >>
    /\ UNCHANGED opVars

\* ------------------------------------------------------------ operations
\* The handler has run to its first await.  query_data checks its text
\* first (lines 178-180) and returns without touching the pool when the
\* guard refuses it; every other call goes on to pool.acquire().
Invoke(o, requests) ==
    /\ lifespan = "serving"
    /\ pc[o] = "idle"
    /\ \E req \in requests :
          /\ request' = [request EXCEPT ![o] = req]
          /\ IF req.kind = "query_data" /\ ~GuardAccepts(req.sql)
             THEN /\ pc' = [pc EXCEPT ![o] = "done"]
                  /\ response' = [response EXCEPT ![o] = RejectedResponse]
             ELSE /\ pc' = [pc EXCEPT ![o] = "acquire"]
                  /\ UNCHANGED response
    /\ UNCHANGED << conn, log, escaped, used, catalog >>
    /\ UNCHANGED lifeVars

\* An exception raised by pool.acquire() itself: nothing was checked out.
AcquireRaises(o, exc) ==
    LET d == Deliver(request[o].kind, Failed(<< >>)) IN
    /\ pc' = [pc EXCEPT ![o] = "done"]
    /\ response' = [response EXCEPT ![o] =
                       IF d.escaped = None
                       THEN ErrorResponse(request[o].kind, exc)
                       ELSE NoResponse]
    /\ escaped' = [escaped EXCEPT ![o] =
                       IF d.escaped = None THEN None ELSE Some(exc)]
    /\ UNCHANGED << request, conn, log, used, catalog >>
    /\ UNCHANGED lifeVars

\* "async with pool.acquire() as conn": a connection is checked out; the
\* caller waits here while every connection is in use.
Acquire(o) ==
    /\ pc[o] = "acquire"
    /\ poolState = "ready"
    /\ \E c \in FreeConns(used) :
          /\ used' = used \cup { c }
          /\ conn' = [conn EXCEPT ![o] = c]
    /\ pc' = [pc EXCEPT ![o] = "run"]
    /\ UNCHANGED << request, log, response, escaped, catalog >>
    /\ UNCHANGED lifeVars

\* pool.acquire() on a pool whose close() has been called raises.
AcquireRefused(o) ==
    /\ pc[o] = "acquire"
    /\ poolState # "ready"
    /\ AcquireRaises(o, "pool_closed")

\* pool.acquire() could not open a connection to the server.
AcquireFails(o) ==
    /\ pc[o] = "acquire"
    /\ poolState = "ready"
    /\ FreeConns(used) # {}
    /\ AcquireRaises(o, "connect_failed")

\* The body of the handler on its connection, then the exit of the
\* "async with" blocks, then the return or the exception.
Run(o, env) ==
    /\ pc[o] = "run"
    /\ \E out \in Outcomes(request[o], catalog, env) :
          LET d == Deliver(request[o].kind, out) IN
          /\ log' = [log EXCEPT ![o] = out.log]
          /\ response' = [response EXCEPT ![o] = d.response]
          /\ escaped' = [escaped EXCEPT ![o] = d.escaped]
          /\ used' = ReleaseOnExit(used, conn[o], out)
    /\ conn' = [conn EXCEPT ![o] = NoConn]
    /\ pc' = [pc EXCEPT ![o] = "done"]
    /\ UNCHANGED << request, catalog >>
    /\ UNCHANGED lifeVars

\* The caller has its answer; its slot is free for the next call.
Collect(o) ==
    /\ pc[o] = "done"
    /\ pc' = [pc EXCEPT ![o] = "idle"]
    /\ request' = [request EXCEPT ![o] = NoRequest]
    /\ log' = [log EXCEPT ![o] = << >>]
    /\ response' = [response EXCEPT ![o] = NoResponse]
    /\ escaped' = [escaped EXCEPT ![o] = None]
    /\ UNCHANGED << conn, used, catalog >>
    /\ UNCHANGED lifeVars

\* ------------------------------------------------------------- scenarios
DefaultLimit == 100

Req(kind, sql, limit, table) ==
    [kind |-> kind, sql |-> sql, limit |-> limit, table |-> table]

tAB == << "a","b" >>
tZZ == << "z","z" >>
colId == [name |-> << "i","d" >>, type |-> tokInt]
colName == [name |-> << "n","m" >>, type |-> tokVarchar]
colDay == [name |-> << "d" >>, type |-> << "d","a","t","e" >>]

sqlSelectA == << "s","e","l","e","c","t"," ","a" >>
sqlSelectPadded == << " ","S","e","L","E","C","T"," ","a","\n" >>
sqlDropT == << " ","D","R","O","P"," ","t" >>
sqlSelec == << "s","e","l","e","c" >>
sqlThenSelect == << "x",";","s","e","l","e","c","t"," ","a" >>
sqlParenSelect == << "(","s","e","l","e","c","t"," ","a",")" >>
sqlSpacedSelect == << "s","e","l","e","c"," ","t" >>

OpsIdle ==
    /\ used = {}
    /\ pc = [o \in Ops |-> "idle"]
    /\ request = [o \in Ops |-> NoRequest]
    /\ conn = [o \in Ops |-> NoConn]
    /\ log = [o \in Ops |-> << >>]
    /\ response = [o \in Ops |-> NoResponse]
    /\ escaped = [o \in Ops |-> None]

\* The gateway under concurrent callers, from process start to exit.
GatewayCatalog == << [name |-> tAB, columns |-> << colId >>, fks |-> << >>] >>

GatewayRequests ==
    { Req("get_all_tables", << >>, None, << >>),
      Req("get_table_schema", << >>, None, tAB),
      Req("get_table_schema", << >>, None, tZZ),
      Req("list_schemas", << >>, None, << >>),
      Req("get_relationships", << >>, None, << >>),
      Req("query_data", sqlSelectA, Some(DefaultLimit), << >>),
      Req("query_data", sqlSelectPadded, None, << >>),
      Req("query_data", sqlDropT, Some(DefaultLimit), << >>),
      Req("query_data", sqlSelec, Some(DefaultLimit), << >>),
      Req("query_data", sqlThenSelect, Some(DefaultLimit), << >>),
      Req("query_data", sqlParenSelect, None, << >>),
      Req("query_data", sqlSpacedSelect, Some(DefaultLimit), << >>),
      Req("query_data", << >>, Some(DefaultLimit), << >>),
      Req("table_statistics", << >>, None, tAB),
      Req("table_statistics", << >>, None, tZZ) }

GatewayEnv ==
    [resultSets |-> { [columns |-> << << "a" >> >>, rows |-> << >>],
                      [columns |-> << << "a" >> >>, rows |-> << << Some(<< "1" >>) >> >>] },
     profiles |-> { [count |-> 2,
                     numeric |-> [min |-> Some(1), max |-> Some(2),
                                  avg |-> Some(12), std |-> Some(4)],
                     text |-> [unique_count |-> 2, avg_length |-> Some(16)],
                     other |-> [unique_count |-> 2]] }]

Init ==
    /\ lifespan = "start"
    /\ exitCause = "none"
    /\ poolState = "uninitialized"
    /\ closeCalls = 0
    /\ catalog = GatewayCatalog
    /\ OpsIdle

Next ==
    \/ CreatePool
    \/ CreatePoolFails
    \/ Shutdown
    \/ WaitClosed
    \/ \E o \in Ops : Invoke(o, GatewayRequests)
    \/ \E o \in Ops : Acquire(o)
    \/ \E o \in Ops : AcquireRefused(o)
    \/ \E o \in Ops : AcquireFails(o)
    \/ \E o \in Ops : Run(o, GatewayEnv)
    \/ \E o \in Ops : Collect(o)

Spec == Init /\ [][Next]_vars

\* One caller of query_data on a serving gateway: every text built from a
\* lead, a first word, a rest and a trail, every limit, every result set.
MaxRows == 2

Leads == { << >>, << " " >>, << "\n","\t" >> }
FirstWords ==
    { kwSelect,
      << "S","E","L","E","C","T" >>,
      << "S","e","l","E","c","t" >>,
      << "s","e","l","e","c" >>,
      << "i","n","s","e","r","t" >>,
      << "D","R","O","P" >>,
      << "x"," ","s","e","l","e","c","t" >>,
      << >> }
Rests ==
    { << " ","a" >>,
      << " ","a"," ","l","i","m","i","t"," ","1" >>,
      << " ","a"," ","L","i","M","I","T"," ","1" >>,
      << " ","l","i","m","i","t","s" >>,
      << " ","'","n","o"," ","l","i","m","i","t","'" >> }
Trails == { << >>, << " " >> }
Limits == { None, Some(0), Some(7), Some(DefaultLimit), Some(-1) }

QueryRequests ==
    { Req("query_data", a \o b \o c \o d, l, << >>)
      : a \in Leads, b \in FirstWords, c \in Rests, d \in Trails, l \in Limits }

colA == << "a" >>
colPiped == << "n","|","m" >>
Cells == { None, Some(<< "x" >>), Some(<< "a","|","b" >>) }
ColumnLists == { << colA >>, << colPiped >>, << colA, colPiped >> }

RowsOf(width) == UNION { [1..n -> [1..width -> Cells]] : n \in 0..MaxRows }

ResultSets ==
    { [columns |-> cols, rows |-> rows]
      : cols \in ColumnLists, rows \in UNION { RowsOf(w) : w \in 1..2 } }

QueryEnv ==
    [resultSets |-> { rs \in ResultSets :
                        \A i \in 1..Len(rs.rows) : Len(rs.rows[i]) = Len(rs.columns) },
     profiles |-> {}]

Serving(catalogs) ==
    /\ lifespan = "serving"
    /\ exitCause = "none"
    /\ poolState = "ready"
    /\ closeCalls = 0
    /\ catalog \in catalogs
    /\ OpsIdle

InitQuery == Serving({ GatewayCatalog })

NextQuery ==
    \/ Invoke(1, QueryRequests)
    \/ Acquire(1)
    \/ AcquireFails(1)
    \/ Run(1, QueryEnv)
    \/ Collect(1)

SpecQuery == InitQuery /\ [][NextQuery]_vars

\* One caller of table_statistics on a serving gateway: table names with
\* and without LIKE wildcards, several catalogs, several table contents.
tXY == << "x","y" >>
StatsCatalogs ==
    { << [name |-> tAB, columns |-> << colId, colName, colDay >>, fks |-> << >>] >>,
      << [name |-> tXY, columns |-> << colName >>, fks |-> << >>],
         [name |-> tAB, columns |-> << colId >>, fks |-> << >>] >>,
      << >> }

StatsRequests ==
    { Req("table_statistics", << >>, None, t)
      : t \in { tAB, tZZ, << "%" >>, << "a","_" >>, << "a","b","c" >>, << >> } }

\* Aggregates as the database answers them for one table content: avg, std
\* and avg_length in eighths, None for an SQL NULL.
AllNull == [min |-> None, max |-> None, avg |-> None, std |-> None]
Profiles ==
    { \* no rows
      [count |-> 0, numeric |-> AllNull,
       text |-> [unique_count |-> 0, avg_length |-> None],
       other |-> [unique_count |-> 0]],
      \* rows whose columns are all NULL
      [count |-> 2, numeric |-> AllNull,
       text |-> [unique_count |-> 0, avg_length |-> None],
       other |-> [unique_count |-> 0]],
      \* a column of zeros, a column of empty strings
      [count |-> 2,
       numeric |-> [min |-> Some(0), max |-> Some(0), avg |-> Some(0), std |-> Some(0)],
       text |-> [unique_count |-> 1, avg_length |-> Some(0)],
       other |-> [unique_count |-> 1]],
      \* a constant column: mean 3, deviation 0
      [count |-> 2,
       numeric |-> [min |-> Some(3), max |-> Some(3), avg |-> Some(24), std |-> Some(0)],
       text |-> [unique_count |-> 1, avg_length |-> Some(8)],
       other |-> [unique_count |-> 1]],
      \* values 1, 2, 3, 4: mean 2.5, deviation 1.125
      [count |-> 4,
       numeric |-> [min |-> Some(1), max |-> Some(4), avg |-> Some(20), std |-> Some(9)],
       text |-> [unique_count |-> 2, avg_length |-> Some(13)],
       other |-> [unique_count |-> 4]],
      \* a negative mean of -0.125, deviation 0.375
      [count |-> 8,
       numeric |-> [min |-> Some(-1), max |-> Some(0), avg |-> Some(-1), std |-> Some(3)],
       text |-> [unique_count |-> 3, avg_length |-> Some(1)],
       other |-> [unique_count |-> 2]] }

StatsEnv == [resultSets |-> {}, profiles |-> Profiles]

InitStats == Serving(StatsCatalogs)

NextStats ==
    \/ Invoke(1, StatsRequests)
    \/ Acquire(1)
    \/ AcquireFails(1)
    \/ Run(1, StatsEnv)
    \/ Collect(1)

SpecStats == InitStats /\ [][NextStats]_vars

\* ================================================================ claims
QueryCalls == { o \in Ops : request[o].kind = "query_data" }
StatsCalls == { o \in Ops : request[o].kind = "table_statistics" }
Holding == { o \in Ops : pc[o] = "run" }

\* The trimmed, case-insensitive text begins with SELECT.
BeginsWithSelect(sql) ==
    LET t == Lower(Strip(sql)) IN
    Len(t) >= 6 /\ \A i \in 1..6 : t[i] = kwSelect[i]

\* C1: a query_data call whose trimmed, case-insensitive text does not begin
\* with SELECT has returned the rejection message, holds no connection, was
\* never waiting for one and has sent no statement, whatever the other
\* callers are doing.
C1_RejectedWithoutDatabase ==
    \A o \in QueryCalls :
        ~BeginsWithSelect(request[o].sql)
        => /\ pc[o] = "done"
           /\ response[o] = RejectedResponse
           /\ escaped[o] = None
           /\ conn[o] = NoConn
           /\ log[o] = << >>

\* A rejected call sits beside another caller that holds a connection.
C1_Witness ==
    \E o \in QueryCalls, p \in Ops :
        /\ ~BeginsWithSelect(request[o].sql)
        /\ response[o] = RejectedResponse
        /\ pc[p] = "run"

RECURSIVE Words(_)
\* The whitespace-separated words of a text.
Words(s) ==
    LET t == LStrip(s) IN
    IF t = << >> THEN << >>
    ELSE LET n == IF \E i \in 1..Len(t) : t[i] \in Whitespace
                  THEN CHOOSE i \in 1..Len(t) :
                          t[i] \in Whitespace /\ \A j \in 1..(i - 1) : t[j] \notin Whitespace
                  ELSE Len(t) + 1
         IN << SubSeq(t, 1, n - 1) >> \o Words(SubSeq(t, n, Len(t)))

IsNumber(w) == w # << >> /\ \A i \in 1..Len(w) : \E d \in 1..10 : DigitChars[d] = w[i]

\* The statement has a LIMIT clause: the keyword LIMIT followed by a count.
HasLimitClause(s) ==
    LET w == Words(s) IN
    \E i \in 1..(Len(w) - 1) : Lower(w[i]) = kwLimit /\ IsNumber(w[i + 1])

\* C2: the statement query_data sends is the trimmed text with exactly one
\* " LIMIT <bound>" appended when the text has no LIMIT clause and a bound is
\* given, and the trimmed text itself when it has a LIMIT clause or the
\* bound is disabled.
C2_LimitAppendedOnce ==
    \A o \in QueryCalls :
        (pc[o] = "done" /\ log[o] # << >>)
        => LET s == Strip(request[o].sql)
               limit == request[o].limit
           IN log[o][1].arg =
                 IF ~HasLimitClause(s) /\ limit # None
                 THEN s \o LimitSuffix \o IntToStr(limit[1])
                 ELSE s

\* C3: the connections checked out are exactly those of the operations that
\* have acquired one and not yet returned or failed, one each; an operation
\* that has returned or failed, by any path, holds none; with no operation
\* in flight nothing is checked out.
C3_ReleasedOnEveryExit ==
    /\ used = { conn[o] : o \in Holding }
    /\ Cardinality(used) = Cardinality(Holding)
    /\ \A o \in Ops \ Holding : conn[o] = NoConn
    /\ (Holding = {}) => (used = {})

\* One caller left by an exception after its statements ran, another
\* returned early on table-not-found, and nothing is checked out.
C3_Witness ==
    /\ used = {}
    /\ \E o \in Ops : pc[o] = "done" /\ escaped[o] # None /\ log[o] # << >>
    /\ \E o \in Ops : pc[o] = "done" /\ response[o].kind = "notfound"

\* C4: no operation lets an exception leave it; every finished operation
\* has returned a text.
C4_NoExceptionEscapes ==
    \A o \in Ops :
        pc[o] = "done" => (escaped[o] = None /\ response[o] # NoResponse)

Holders == { o \in Ops : conn[o] # NoConn }

\* C5 (state part): never more holders than the pool has connections, and
\* no connection with two holders.
C5_Bounded ==
    /\ Cardinality(Holders) <= MaxSize
    /\ \A o \in Holders, p \in Holders : o # p => conn[o] # conn[p]

\* C5 (step part): an acquire returns only from a state in which the pool
\* was not exhausted, with a connection nobody held.
C5_AcquireStep ==
    \A o \in Ops :
        (conn[o] = NoConn /\ conn'[o] # NoConn)
        => /\ Cardinality(Holders) < MaxSize
           /\ \A p \in Holders : conn[p] # conn'[o]

C6_Lifecycle ==
    /\ closeCalls <= 1
    /\ (poolState \in { "draining", "closed" }) <=> (closeCalls = 1)
    /\ lifespan = "exited" => (closeCalls = 1 /\ poolState = "closed")
    /\ poolState = "closed" => (used = {} /\ Holders = {})
    /\ lifespan = "failed"
       => (closeCalls = 0 /\ poolState = "uninitialized" /\ exitCause = "exception")

\* C6 (step part): the pool state only moves one stage forward; it becomes
\* closed only from a state with nothing checked out; a connection is
\* handed out only while the pool is ready.
C6_Forward ==
    /\ \/ poolState' = poolState
       \/ << poolState, poolState' >> \in { << "uninitialized", "ready" >>,
                                            << "ready", "draining" >>,
                                            << "draining", "closed" >> }
    /\ (poolState # "closed" /\ poolState' = "closed") => (used = {})
    /\ \A o \in Ops :
          (conn[o] = NoConn /\ conn'[o] # NoConn) => poolState = "ready"

C7_NotFoundByLookupAlone ==
    \A o \in StatsCalls :
        ( /\ pc[o] = "done"
          /\ ~HasTable(catalog, request[o].table)
          /\ log[o] # << >>
          /\ log[o][1].ok )
        => (response[o].kind = "notfound" /\ Len(log[o]) = 1)

\* C8: a table_statistics call in which any statement raised returns the
\* error text alone, with no row count and no statistic; a statistics table
\* is returned only when the lookup, the count, the DESCRIBE and the query of
\* every column succeeded, and it has an entry for every column.
C8_AllOrNothing ==
    \A o \in StatsCalls :
        pc[o] = "done"
        => LET lg == log[o]
               r == response[o]
           IN /\ (\E i \in 1..Len(lg) : ~lg[i].ok)
                 => (r = ErrorResponse("table_statistics", "db_error")
                     /\ DOMAIN r = { "kind", "source", "detail" })
              /\ r.kind = "stats"
                 => /\ Len(lg) >= 3
                    /\ \A i \in 1..Len(lg) : lg[i].ok
                    /\ lg[1].stmt = "SHOW TABLES LIKE"
                    /\ lg[2].stmt = "COUNT"
                    /\ lg[3].stmt = "DESCRIBE"
                    /\ Len(lg) = 3 + Len(lg[3].reply)
                    /\ Len(r.num_cols) + Len(r.text_cols) + Len(r.other_cols)
                       = Len(lg[3].reply)

\* The query of the third column raised after two columns were computed,
\* and the call returned the error text.
C8_Witness ==
    \E o \in StatsCalls :
        /\ pc[o] = "done"
        /\ Len(log[o]) = 6
        /\ log[o][4].ok /\ log[o][5].ok /\ ~log[o][6].ok
        /\ response[o].kind = "error"

\* The column delimiters of a line that are not escaped by a backslash.
UnescapedDelims(line) ==
    Cardinality({ i \in 1..Len(line) :
                    line[i] = "|" /\ (i = 1 \/ line[i - 1] # "\\") })

\* C9: a non-empty result set is rendered as a header, a separator and one
\* line per row, each with (columns + 1) unescaped delimiters; an empty one
\* as the no-rows message.
C9_TableWellFormed ==
    \A o \in QueryCalls :
        (pc[o] = "done" /\ log[o] # << >> /\ log[o][1].ok)
        => LET rs == log[o][1].reply
               r == response[o]
           IN IF rs.rows = << >> THEN r = NoRowsResponse
              ELSE /\ r.kind = "table"
                   /\ Len(r.lines) = Len(rs.rows) + 2
                   /\ \A i \in 1..Len(r.lines) :
                         UnescapedDelims(r.lines[i]) = Len(rs.columns) + 1

\* The entry of a section for a column.
EntryFor(section, column) ==
    section[CHOOSE i \in 1..Len(section) : section[i].column = column]

\* The reported value is None exactly when the aggregate is NULL, and is
\* the aggregate rounded to 2 decimals otherwise.
ReportedAs(shown, aggregate) ==
    IF aggregate = None THEN shown = None
    ELSE shown = Some(Round2(aggregate[1]))

\* C10: in a statistics table, every mean, standard deviation and mean
\* length is unavailable exactly when the database answered NULL, and is
\* the rounded value otherwise, zero included.
C10_NoneOnlyForNull ==
    \A o \in StatsCalls :
        (pc[o] = "done" /\ response[o].kind = "stats")
        => \A i \in 4..Len(log[o]) :
              LET e == log[o][i] IN
              /\ e.stmt = "NUMERIC_STATS"
                 => /\ ReportedAs(EntryFor(response[o].num_cols, e.arg).avg, e.reply.avg)
                    /\ ReportedAs(EntryFor(response[o].num_cols, e.arg).std, e.reply.std)
              /\ e.stmt = "TEXT_STATS"
                 => ReportedAs(EntryFor(response[o].text_cols, e.arg).avg_length,
                               e.reply.avg_length)

====
